---- MODULE Spec2Model ----
(***************************************************************************)
(* Model of pyosm: metatile hash codec and addressing                      *)
(* (pyosm/metatile/metatile.py), decomposition of a bound into metatiles,  *)
(* the metatile container format and the mbtiles store                     *)
(* (pyosm/mbtile/filelike.py).                                             *)
(***************************************************************************)
EXTENDS Integers, Sequences, FiniteSets, TLC

VARIABLES
    pc,        \* position of the modelled caller
    tile,      \* addressing: the input Tile [z, x, y, style]
    mt,        \* addressing: the Metatile built from it
    probe,     \* addressing: the Tile tested with "in"
    inside,    \* addressing: result of the membership test
    url,       \* addressing: a path (sequence of characters)
    parsed,    \* addressing: result of Metatile.from_url (None: ValueError)
    bound,     \* decomposition: the input Bound
    cursor,    \* decomposition: index of the next point of bound.points()
    buf,       \* decomposition: the Buffer of recent metatiles
    emitted,   \* decomposition: sequence of metatiles yielded so far
    tilemap,   \* container: the coordinate -> payload mapping given to write
    origin,    \* container: the (x, y, z) given to write
    file,      \* container: the container file [header, index, payload]
    readback,  \* container: the mapping readtiles returned
    file2,     \* container: the container written from readback
    store,     \* mbtiles: the database [meta, rows]
    mode,      \* mbtiles: the mode string given to open
    conn,      \* mbtiles: state of the sqlite connection
    handle,    \* mbtiles: the MBTileFile object open() returned
    err,       \* mbtiles: the exception that ended the last call, or "none"
    query,     \* mbtiles: the (z, x, y) of the last readtile
    data       \* mbtiles: what the last readtile returned

addrVars == <<tile, mt, probe, inside, url, parsed>>
decVars  == <<bound, cursor, buf, emitted>>
ctVars   == <<tilemap, origin, file, readback, file2>>
mbVars   == <<store, mode, conn, handle, err, query, data>>
vars     == <<pc, addrVars, decVars, ctVars, mbVars>>

\* an absent value (Python's None, a failed match) and a present one
None == [ok |-> FALSE]
Some(v) == [ok |-> TRUE, v |-> v]

-----------------------------------------------------------------------------
(* Integer helpers: Python's &, | on non-negative ints, bit by bit.        *)

RECURSIVE BitAnd(_, _)
BitAnd(a, b) ==
    IF a = 0 \/ b = 0 THEN 0
    ELSE (a % 2) * (b % 2) + 2 * BitAnd(a \div 2, b \div 2)

RECURSIVE BitOr(_, _)
BitOr(a, b) ==
    IF a = 0 THEN b
    ELSE IF b = 0 THEN a
    ELSE (IF a % 2 = 1 \/ b % 2 = 1 THEN 1 ELSE 0) + 2 * BitOr(a \div 2, b \div 2)

\* a & ~m for non-negative a and m
RECURSIVE BitAndNot(_, _)
BitAndNot(a, m) ==
    IF a = 0 THEN 0
    ELSE (IF a % 2 = 1 /\ m % 2 = 0 THEN 1 ELSE 0) + 2 * BitAndNot(a \div 2, m \div 2)

Min(a, b) == IF a <= b THEN a ELSE b

RECURSIVE Reverse(_)
Reverse(s) == IF s = <<>> THEN <<>> ELSE Reverse(Tail(s)) \o <<Head(s)>>

-----------------------------------------------------------------------------
(* pyosm/metatile/metatile.py                                              *)

META_SIZE == 8

META_EXT == <<".", "m", "e", "t", "a">>

Point(x, y) == [x |-> x, y |-> y]

\* the loop of hashes_to_xy, over hashes[i..5]
RECURSIVE HashesToXYLoop(_, _, _, _)
HashesToXYLoop(hashes, i, x, y) ==
    IF i > 5 THEN Point(x, y)
    ELSE HashesToXYLoop(hashes, i + 1,
                        BitOr(x * 16, BitAnd(hashes[i], 240) \div 16),
                        BitOr(y * 16, BitAnd(hashes[i], 15)))

\* hashes_to_xy
hashes_to_xy(hashes) == HashesToXYLoop(hashes, 1, 0, 0)

\* the loop of xy_to_hashes: n bytes, least significant first
RECURSIVE XYToHashesLoop(_, _, _)
XYToHashesLoop(x, y, n) ==
    IF n = 0 THEN <<>>
    ELSE <<BitOr(BitAnd(x, 15) * 16, BitAnd(y, 15))>>
         \o XYToHashesLoop(x \div 16, y \div 16, n - 1)

\* a slip in the encoder: the final hashes.reverse() is missing
xy_to_hashes_noreverse(x, y) ==
    XYToHashesLoop(BitAndNot(x, META_SIZE - 1), BitAndNot(y, META_SIZE - 1), 5)

\* xy_to_hashes
xy_to_hashes(x, y) ==
    Reverse(XYToHashesLoop(BitAndNot(x, META_SIZE - 1),
                           BitAndNot(y, META_SIZE - 1), 5))

\* a slip in __len__: the low zoom levels are not taken into account
MetaLenFixed(z) == META_SIZE

\* Metatile.__len__
MetaLen(z) == Min(META_SIZE, 2 ^ z)

\* Metatile.__init__
Metatile(z, hashes, style) ==
    LET p == hashes_to_xy(hashes) IN
    [z |-> z, hashes |-> hashes, style |-> style,
     x |-> p.x, y |-> p.y,
     max_x |-> p.x + MetaLen(z) - 1,
     max_y |-> p.y + MetaLen(z) - 1]

\* Metatile.points: x outer, y inner
MetatilePoints(m) ==
    LET n == m.max_y - m.y + 1
        w == m.max_x - m.x + 1
    IN [i \in 1..(w * n) |-> Point(m.x + ((i - 1) \div n), m.y + ((i - 1) % n))]

\* Metatile.__contains__
MetatileContains(m, t) ==
    IF t.style # m.style THEN FALSE
    ELSE IF t.z # m.z THEN FALSE
    ELSE IF t.x < m.x \/ t.x > m.max_x THEN FALSE
    ELSE IF t.y < m.y \/ t.y > m.max_y THEN FALSE
    ELSE TRUE

\* a slip in __eq__: the y coordinate is not compared
MetatileEqNoY(a, b) ==
    IF a.style # b.style THEN FALSE
    ELSE IF a.z # b.z THEN FALSE
    ELSE IF a.x # b.x THEN FALSE
    ELSE TRUE

\* Metatile.__eq__
MetatileEq(a, b) ==
    IF a.style # b.style THEN FALSE
    ELSE IF a.z # b.z THEN FALSE
    ELSE IF a.x # b.x THEN FALSE
    ELSE IF a.y # b.y THEN FALSE
    ELSE TRUE

\* Metatile.from_tile
from_tile(t) == Metatile(t.z, xy_to_hashes(t.x, t.y), t.style)

-----------------------------------------------------------------------------
(* Strings are sequences of one-character strings, so that str(), int(),   *)
(* os.path.join and the regular expression act on characters.              *)

DigitChars == <<"0", "1", "2", "3", "4", "5", "6", "7", "8", "9">>

IsDigit(c) == \E i \in 1..10 : DigitChars[i] = c

\* \w of Python's re, over the characters the model uses
IsWord(c) == IsDigit(c) \/ c \in {"a", "b", "c", "e", "m", "p", "t", "_"}

\* str(n) for n >= 0
RECURSIVE Str(_)
Str(n) == IF n < 10 THEN <<DigitChars[n + 1]>>
          ELSE Str(n \div 10) \o <<DigitChars[(n % 10) + 1]>>

DigitVal(c) == (CHOOSE i \in 1..10 : DigitChars[i] = c) - 1

\* int(s) for a non-empty string of digits
RECURSIVE ParseInt(_)
ParseInt(s) ==
    IF Len(s) = 1 THEN DigitVal(s[1])
    ELSE ParseInt(SubSeq(s, 1, Len(s) - 1)) * 10 + DigitVal(s[Len(s)])

\* posixpath.join(a, b), one step of its loop
PathJoin2(a, b) ==
    IF b # <<>> /\ b[1] = "/" THEN b
    ELSE IF a = <<>> \/ a[Len(a)] = "/" THEN a \o b
    ELSE a \o <<"/">> \o b

RECURSIVE PathJoin(_, _)
PathJoin(a, rest) ==
    IF rest = <<>> THEN a ELSE PathJoin(PathJoin2(a, Head(rest)), Tail(rest))

\* Metatile.filepath
filepath(m, basedir) ==
    PathJoin(basedir, <<m.style, Str(m.z),
                        Str(m.hashes[1]), Str(m.hashes[2]), Str(m.hashes[3]),
                        Str(m.hashes[4]), Str(m.hashes[5]) \o META_EXT>>)

\* end of the longest run of digits (word characters) of s that starts at i:
\* the index after the run
RECURSIVE DigitRunEnd(_, _)
DigitRunEnd(s, i) ==
    IF i <= Len(s) /\ IsDigit(s[i]) THEN DigitRunEnd(s, i + 1) ELSE i

RECURSIVE WordRunEnd(_, _)
WordRunEnd(s, i) ==
    IF i <= Len(s) /\ IsWord(s[i]) THEN WordRunEnd(s, i + 1) ELSE i

HasAt(s, i, lit) ==
    /\ i + Len(lit) - 1 <= Len(s)
    /\ SubSeq(s, i, i + Len(lit) - 1) = lit

\* the groups "/(\d+)" x n of META_URL_RE matched from index i of s: the
\* sequence of the digit groups and the index after them, or None
RECURSIVE DigitGroups(_, _, _)
DigitGroups(s, i, n) ==
    IF n = 0 THEN Some([groups |-> <<>>, next |-> i])
    ELSE IF ~HasAt(s, i, <<"/">>) THEN None
    ELSE LET e == DigitRunEnd(s, i + 1) IN
         IF e = i + 1 THEN None
         ELSE LET r == DigitGroups(s, e, n - 1) IN
              IF ~r.ok THEN None
              ELSE Some([groups |-> <<SubSeq(s, i + 1, e - 1)>> \o r.v.groups,
                         next |-> r.v.next])

\* META_URL_RE matched with its first character at index i of s: the groups
\* (style, z, h0..h4), or None
MetaUrlMatchAt(s, i) ==
    LET e == WordRunEnd(s, i) IN
    IF e = i THEN None
    ELSE LET r == DigitGroups(s, e, 6) IN
         IF ~r.ok THEN None
         ELSE IF ~HasAt(s, r.v.next, META_EXT) THEN None
         ELSE Some(<<SubSeq(s, i, e - 1)>> \o r.v.groups)

\* META_URL_RE.search(s): the leftmost match
MetaUrlSearch(s) ==
    LET starts == {i \in 1..Len(s) : MetaUrlMatchAt(s, i).ok} IN
    IF starts = {} THEN None
    ELSE MetaUrlMatchAt(s, CHOOSE i \in starts : \A j \in starts : i <= j)

\* Metatile.from_url: None stands for the ValueError it raises
from_url(s) ==
    LET m == MetaUrlSearch(s) IN
    IF ~m.ok THEN None
    ELSE LET g == m.v IN
         Some(Metatile(ParseInt(g[2]),
                       <<ParseInt(g[3]), ParseInt(g[4]), ParseInt(g[5]),
                         ParseInt(g[6]), ParseInt(g[7])>>,
                       g[1]))

-----------------------------------------------------------------------------
(* Inputs of the addressing operations.                                    *)

\* coordinates 0..MaxSmallCoord are all tried, next to the chosen large ones
MaxSmallCoord == 9

\* largest offset from a metatile's origin at which membership is probed
MaxProbeOffset == 8

TwoTo20 == 2 ^ 20

XCoords == (0..MaxSmallCoord) \cup {696, 697, 703, TwoTo20 - 8, TwoTo20 - 1, TwoTo20}

YCoords == {0, 1, 5, 8, 320, 321, TwoTo20 - 8, TwoTo20 + 9} \cup {MaxSmallCoord}

Zooms == {0, 1, 2, 3, 4, 10, 20, 21}

StyleMap == <<"m", "a", "p">>

Styles == {<<>>, StyleMap, <<"a", "-", "b">>}

BaseDirs == {<<>>, <<"/", "c">>, <<"t">>}

Tile(z, x, y, style) == [z |-> z, x |-> x, y |-> y, style |-> style]

Tiles == {Tile(z, x, y, st) : z \in Zooms, x \in XCoords, y \in YCoords, st \in Styles}

NoTile == Tile(0, 0, 0, <<>>)

\* a url written by hand: style/z/h0/h1/h2/h3/h4.meta
RawUrl(style, z, h) ==
    style \o <<"/">> \o Str(z) \o <<"/">> \o Str(h[1]) \o <<"/">> \o Str(h[2])
    \o <<"/">> \o Str(h[3]) \o <<"/">> \o Str(h[4]) \o <<"/">> \o Str(h[5]) \o META_EXT

RawHashes == {<<0, 0, 33, 180, 128>>, <<0, 0, 0, 0, 1>>, <<0, 0, 0, 0, 999>>,
              <<256, 0, 0, 0, 0>>, <<0, 0, 0, 8, 0>>}

RawUrls ==
    {RawUrl(StyleMap, z, h) : z \in {1, 10}, h \in RawHashes}
    \cup {StyleMap \o <<"/">> \o Str(10) \o <<"/">> \o Str(0) \o META_EXT,
          <<"/">> \o RawUrl(<<"c">>, 10, <<0, 0, 33, 180, 128>>),
          RawUrl(StyleMap, 10, <<0, 0, 33, 180, 128>>) \o <<"t">>}

ProbeOffsets == {-1, 0, 1, 2, 7, MaxProbeOffset}

\* the tiles whose membership in m is tested after from_tile(t)
Probes(t, m) ==
    {Tile(t.z, m.x + dx, m.y + dy, t.style) :
        dx \in {d \in ProbeOffsets : m.x + d >= 0},
        dy \in {d \in ProbeOffsets : m.y + d >= 0}}
    \cup {t, Tile(t.z + 1, t.x, t.y, t.style)}
    \cup {Tile(t.z, t.x, t.y, st) : st \in Styles}

AddrIdle ==
    /\ tile = NoTile /\ mt = None /\ probe = NoTile /\ inside = FALSE
    /\ url = <<>> /\ parsed = None

-----------------------------------------------------------------------------
(* The addressing operations as steps of a caller.                         *)

AddrInit ==
    /\ \/ pc = "start" /\ tile \in Tiles /\ url = <<>>
       \/ pc = "rawurl" /\ tile = NoTile /\ url \in RawUrls
    /\ mt = None /\ probe = NoTile /\ inside = FALSE /\ parsed = None

\* mt = Metatile.from_tile(tile)
AddrFromTile ==
    /\ pc = "start"
    /\ mt' = Some(from_tile(tile))
    /\ pc' = "made"
    /\ UNCHANGED <<tile, probe, inside, url, parsed, decVars, ctVars, mbVars>>

\* inside = (t in mt)
AddrContains ==
    /\ pc = "made"
    /\ \E t \in Probes(tile, mt.v) :
        /\ probe' = t
        /\ inside' = MetatileContains(mt.v, t)
    /\ pc' = "tested"
    /\ UNCHANGED <<tile, mt, url, parsed, decVars, ctVars, mbVars>>

\* url = mt.filepath(basedir)
AddrFilepath ==
    /\ pc = "made"
    /\ \E b \in BaseDirs : url' = filepath(mt.v, b)
    /\ pc' = "pathed"
    /\ UNCHANGED <<tile, mt, probe, inside, parsed, decVars, ctVars, mbVars>>

\* parsed = Metatile.from_url(url), of a path filepath made
AddrFromUrl ==
    /\ pc = "pathed"
    /\ parsed' = from_url(url)
    /\ pc' = "parsed"
    /\ UNCHANGED <<tile, mt, probe, inside, url, decVars, ctVars, mbVars>>

\* parsed = Metatile.from_url(url), of a path given by the caller
AddrFromUrlRaw ==
    /\ pc = "rawurl"
    /\ parsed' = from_url(url)
    /\ pc' = "rawparsed"
    /\ UNCHANGED <<tile, mt, probe, inside, url, decVars, ctVars, mbVars>>

AddrNext ==
    \/ AddrFromTile
    \/ AddrContains
    \/ AddrFilepath
    \/ AddrFromUrl
    \/ AddrFromUrlRaw

-----------------------------------------------------------------------------
(* pyosm.point.Bound and pyosm.buffer.Buffer, as bound_to_metatiles uses   *)
(* them, and bound_to_metatiles itself.                                    *)

Bound(z, min_x, max_x, min_y, max_y) ==
    [z |-> z, min_x |-> min_x, max_x |-> max_x, min_y |-> min_y, max_y |-> max_y]

\* number of points of Bound.points()
BoundSize(b) == (b.max_x - b.min_x + 1) * (b.max_y - b.min_y + 1)

\* the i-th point of Bound.points(): raster order, x outer and y inner
BoundPoint(b, i) ==
    LET n == b.max_y - b.min_y + 1 IN
    Point(b.min_x + ((i - 1) \div n), b.min_y + ((i - 1) % n))

\* capacity of the recency buffer: K = side_length
BufferSize == META_SIZE

\* Buffer.append: the oldest element leaves a full buffer
BufferAppend(b, m) ==
    IF Len(b) < BufferSize THEN Append(b, m) ELSE Append(Tail(b), m)

\* "metatile in buf": Metatile.__eq__ against the buffered metatiles
BufferContains(b, m) == \E i \in 1..Len(b) : MetatileEq(b[i], m)

\* the metatile bound_to_metatiles builds for a point of the bound
MetatileOfPoint(call, point) ==
    Metatile(call.bound.z, xy_to_hashes(point.x, point.y), call.style)

\* inputs: bounds inside the tile grid of their zoom
MaxWidth == 9

MaxHeight == 10

TallHeight == 66

DecZooms == {0, 1, 2, 3, 4, 7, 10}

DocBound == Bound(10, 692, 703, 318, 324)

Bounds ==
    {b \in {Bound(z, x0, x0 + w - 1, y0, y0 + h - 1) :
                z \in DecZooms, x0 \in {0, 3, 7, 692}, y0 \in {0, 6, 318},
                w \in 1..MaxWidth, h \in (1..MaxHeight) \cup {TallHeight}} :
        b.max_x < 2 ^ b.z /\ b.max_y < 2 ^ b.z}
    \cup {DocBound}

DecInit ==
    /\ pc = "iter"
    /\ \E b \in Bounds, st \in {<<>>, StyleMap} :
        bound = Some([bound |-> b, style |-> st])
    /\ cursor = 1
    /\ buf = <<>>
    /\ emitted = <<>>

\* one iteration of the loop whose metatile is not in the buffer: it is
\* appended to the buffer and yielded
DecYield ==
    /\ pc = "iter"
    /\ cursor <= BoundSize(bound.v.bound)
    /\ LET m == MetatileOfPoint(bound.v, BoundPoint(bound.v.bound, cursor)) IN
        /\ ~BufferContains(buf, m)
        /\ buf' = BufferAppend(buf, m)
        /\ emitted' = Append(emitted, m)
    /\ cursor' = cursor + 1
    /\ UNCHANGED <<pc, bound, addrVars, ctVars, mbVars>>

\* one iteration of the loop whose metatile is in the buffer
DecSkip ==
    /\ pc = "iter"
    /\ cursor <= BoundSize(bound.v.bound)
    /\ BufferContains(buf, MetatileOfPoint(bound.v, BoundPoint(bound.v.bound, cursor)))
    /\ cursor' = cursor + 1
    /\ UNCHANGED <<pc, bound, buf, emitted, addrVars, ctVars, mbVars>>

\* the points are exhausted: the generator returns
DecExhausted ==
    /\ pc = "iter"
    /\ cursor > BoundSize(bound.v.bound)
    /\ pc' = "done"
    /\ UNCHANGED <<bound, cursor, buf, emitted, addrVars, ctVars, mbVars>>

DecNext ==
    \/ DecYield
    \/ DecSkip
    \/ DecExhausted

-----------------------------------------------------------------------------
(* The metatile container: header, index and payload region; write and     *)
(* readtiles of the container file object.                                  *)

Header(count, x, y, z) == [count |-> count, x |-> x, y |-> y, z |-> z]

\* one entry of the index: the slot (dx, dy) and where its payload lies
IndexEntry(dx, dy, offset, size) ==
    [dx |-> dx, dy |-> dy, offset |-> offset, size |-> size]

\* the metatile a container with this origin stands for
ContainerMetatile(x, y, z) == from_tile(Tile(z, x, y, <<>>))

\* a slip in write: the running offset is not advanced past a payload
RECURSIVE WriteEntriesNoAdvance(_, _, _, _, _)
WriteEntriesNoAdvance(pts, i, m, tile_map, offset) ==
    IF i > Len(pts) THEN [index |-> <<>>, payload |-> <<>>]
    ELSE IF pts[i] \notin DOMAIN tile_map
         THEN WriteEntriesNoAdvance(pts, i + 1, m, tile_map, offset)
    ELSE LET bytes == tile_map[pts[i]]
             rest == WriteEntriesNoAdvance(pts, i + 1, m, tile_map, offset)
         IN [index |-> <<IndexEntry(pts[i].x - m.x, pts[i].y - m.y,
                                    offset, Len(bytes))>> \o rest.index,
             payload |-> bytes \o rest.payload]

\* the loop of write over the points of the container, in raster order: the
\* index entries and the payload region from the i-th point on
RECURSIVE WriteEntries(_, _, _, _, _)
WriteEntries(pts, i, m, tile_map, offset) ==
    IF i > Len(pts) THEN [index |-> <<>>, payload |-> <<>>]
    ELSE IF pts[i] \notin DOMAIN tile_map
         THEN WriteEntries(pts, i + 1, m, tile_map, offset)
    ELSE LET bytes == tile_map[pts[i]]
             rest == WriteEntries(pts, i + 1, m, tile_map, offset + Len(bytes))
         IN [index |-> <<IndexEntry(pts[i].x - m.x, pts[i].y - m.y,
                                    offset, Len(bytes))>> \o rest.index,
             payload |-> bytes \o rest.payload]

\* write(x, y, z, data): the container file
ContainerWrite(x, y, z, tile_map) ==
    LET m == ContainerMetatile(x, y, z)
        r == WriteEntries(MetatilePoints(m), 1, m, tile_map, 0)
    IN [header |-> Header(Len(r.index), x, y, z),
        index |-> r.index,
        payload |-> r.payload]

\* the bytes of one index entry
EntryBytes(f, e) == SubSeq(f.payload, e.offset + 1, e.offset + e.size)

\* readtiles(): absolute point -> payload, for every entry of the index
ReadTiles(f) ==
    LET pointOf(e) == Point(f.header.x + e.dx, f.header.y + e.dy)
        entries == {f.index[i] : i \in 1..Len(f.index)}
    IN [p \in {pointOf(e) : e \in entries} |->
            EntryBytes(f, CHOOSE e \in entries : pointOf(e) = p)]

\* inputs: origins of containers and sparse mappings over some of their slots
Origins == {[x |-> 0, y |-> 0, z |-> 0], [x |-> 0, y |-> 0, z |-> 1],
            [x |-> 8, y |-> 8, z |-> 4], [x |-> 696, y |-> 320, z |-> 10]}

\* the slots a mapping may populate: the first two and the last of each axis
SlotOffsets(z) == {d \in {0, 1, MetaLen(z) - 1} : d < MetaLen(z)}

CandidatePoints(o) ==
    {Point(o.x + dx, o.y + dy) :
        dx \in SlotOffsets(o.z), dy \in SlotOffsets(o.z) \cap {0, 1}}

Payloads == {<<>>, <<1>>, <<2, 3>>}

TileMaps(o) == UNION {[D -> Payloads] : D \in SUBSET CandidatePoints(o)}

CtInit ==
    /\ pc = "ct_start"
    /\ \E o \in Origins :
        /\ origin = Some(o)
        /\ tilemap \in TileMaps(o)
    /\ file = None
    /\ readback = <<>>
    /\ file2 = None

\* mt.write(x, y, z, data) on a container opened "wb"
CtWrite ==
    /\ pc = "ct_start"
    /\ file' = Some(ContainerWrite(origin.v.x, origin.v.y, origin.v.z, tilemap))
    /\ pc' = "written"
    /\ UNCHANGED <<tilemap, origin, readback, file2, addrVars, decVars, mbVars>>

\* data = mt.readtiles() on the container opened "rb"
CtReadTiles ==
    /\ pc = "written"
    /\ readback' = ReadTiles(file.v)
    /\ pc' = "read"
    /\ UNCHANGED <<tilemap, origin, file, file2, addrVars, decVars, mbVars>>

\* mt.write(header.x, header.y, header.z, data) with what readtiles returned
CtRewrite ==
    /\ pc = "read"
    /\ file2' = Some(ContainerWrite(file.v.header.x, file.v.header.y,
                                    file.v.header.z, readback))
    /\ pc' = "rewritten"
    /\ UNCHANGED <<tilemap, origin, file, readback, addrVars, decVars, mbVars>>

CtNext ==
    \/ CtWrite
    \/ CtReadTiles
    \/ CtRewrite

-----------------------------------------------------------------------------
(* pyosm/mbtile/filelike.py                                                *)

KeyCenter == <<"c", "e", "n", "t", "e", "r">>
KeyFormat == <<"f", "o", "r", "m", "a", "t">>
KeyBounds == <<"b", "o", "u", "n", "d", "s">>
KeyMinzoom == <<"m", "i", "n", "z", "o", "o", "m">>
KeyMaxzoom == <<"m", "a", "x", "z", "o", "o", "m">>

ModeRB == <<"r", "b">>

\* "a in b" of two Python strings: a is a substring of b
IsSubstring(a, b) ==
    /\ Len(a) <= Len(b)
    /\ \E i \in 0..(Len(b) - Len(a)) : SubSeq(b, i + 1, i + Len(a)) = a

\* not (mode not in ("rb")): ("rb") is the string "rb"
ModeSupported(m) == IsSubstring(m, ModeRB)

\* "key in row" for a sqlite3.Row (name, value): one of its values is key
InRow(key, row) == key = row.name \/ key = row.value

\* the value the loop of _get_metadata leaves in the local for key: that of
\* the last row matching it, None when the local was never assigned
LastValue(key, rows) ==
    LET hits == {i \in 1..Len(rows) : InRow(key, rows[i])} IN
    IF hits = {} THEN None
    ELSE Some(rows[CHOOSE i \in hits : \A j \in hits : j <= i].value)

\* int(s) succeeds
IsIntString(s) == s # <<>> /\ \A i \in 1..Len(s) : IsDigit(s[i])

\* MBTileFile._get_metadata: the Metadata, or the exception it raises
GetMetadata(db) ==
    LET center == LastValue(KeyCenter, db.meta)
        format == LastValue(KeyFormat, db.meta)
        bounds == LastValue(KeyBounds, db.meta)
        minzoom == LastValue(KeyMinzoom, db.meta)
        maxzoom == LastValue(KeyMaxzoom, db.meta)
    IN IF ~(center.ok /\ format.ok /\ bounds.ok /\ minzoom.ok /\ maxzoom.ok)
       THEN [ok |-> FALSE, err |-> "UnboundLocalError"]
       ELSE IF ~(IsIntString(minzoom.v) /\ IsIntString(maxzoom.v))
       THEN [ok |-> FALSE, err |-> "ValueError"]
       ELSE [ok |-> TRUE,
             v |-> [center |-> center.v, format |-> format.v, bounds |-> bounds.v,
                    minzoom |-> ParseInt(minzoom.v), maxzoom |-> ParseInt(maxzoom.v)]]

\* SQL min() and max() over a column of the selected rows: NULL when no row
SqlMin(S) == IF S = {} THEN None ELSE Some(CHOOSE a \in S : \A b \in S : a <= b)

SqlMax(S) == IF S = {} THEN None ELSE Some(CHOOSE a \in S : \A b \in S : b <= a)

\* Bound(z, min_x, max_x, min_y, max_y, flip_y=...) of pyosm.point
MbBound(z, min_x, max_x, min_y, max_y, flip_y) ==
    [z |-> z, min_x |-> min_x, max_x |-> max_x, min_y |-> min_y, max_y |-> max_y,
     flip_y |-> flip_y]

\* the loop of _get_bounds from zoom z on: the list of Bound, or the
\* TypeError int(None) raises when a zoom has no rows
RECURSIVE GetBoundsFrom(_, _, _)
GetBoundsFrom(db, z, maxzoom) ==
    IF z > maxzoom THEN [ok |-> TRUE, v |-> <<>>]
    ELSE LET keys == {k \in DOMAIN db.rows : k.zoom_level = z}
             min_x == SqlMin({k.tile_column : k \in keys})
             max_x == SqlMax({k.tile_column : k \in keys})
             min_y == SqlMin({k.tile_row : k \in keys})
             max_y == SqlMax({k.tile_row : k \in keys})
         IN IF ~(min_x.ok /\ max_x.ok /\ min_y.ok /\ max_y.ok)
            THEN [ok |-> FALSE, err |-> "TypeError"]
            ELSE LET rest == GetBoundsFrom(db, z + 1, maxzoom) IN
                 IF ~rest.ok THEN rest
                 ELSE [ok |-> TRUE,
                       v |-> <<MbBound(z, min_x.v, max_x.v, min_y.v, max_y.v, TRUE)>>
                             \o rest.v]

\* a slip in _get_bounds: range(minzoom, maxzoom) leaves the last zoom out
GetBoundsExclusive(db, metadata) ==
    GetBoundsFrom(db, metadata.minzoom, metadata.maxzoom - 1)

\* MBTileFile._get_bounds
GetBounds(db, metadata) == GetBoundsFrom(db, metadata.minzoom, metadata.maxzoom)

\* the rows the SELECT of readtile(z, x, y) matches: the parameters (z, x, y)
\* are bound to zoom_level, tile_row, tile_column in that order
ReadTileRows(db, z, x, y) ==
    {k \in DOMAIN db.rows : k.zoom_level = z /\ k.tile_row = x /\ k.tile_column = y}

\* inputs: databases and mode strings
TileKey(z, col, row) == [zoom_level |-> z, tile_column |-> col, tile_row |-> row]

\* largest zoom level of a stored tile and of the metadata
MaxStoreZoom == 2

TileKeys ==
    {TileKey(0, 0, 0), TileKey(1, 0, 1), TileKey(1, 1, 1), TileKey(2, 3, 1)}
    \cup {TileKey(MaxStoreZoom, 0, 2)}

\* tile_data of the row with key k: every row holds different bytes
TileData(k) == <<k.zoom_level, k.tile_column, k.tile_row>>

MetaRow(name, value) == [name |-> name, value |-> value]

MetaTable(minzoom, maxzoom) ==
    <<MetaRow(KeyBounds, <<"0", ",", "0">>), MetaRow(KeyCenter, <<"0">>),
      MetaRow(KeyFormat, <<"p">>), MetaRow(KeyMaxzoom, maxzoom),
      MetaRow(KeyMinzoom, minzoom)>>

MetaTables ==
    {MetaTable(Str(a), Str(b)) : a, b \in 0..MaxStoreZoom}
    \cup {MetaTable(<<"a">>, <<"1">>),
          SubSeq(MetaTable(<<"0">>, <<"1">>), 1, 4)}

Stores ==
    {[meta |-> m, rows |-> [k \in K |-> TileData(k)]] :
        m \in MetaTables, K \in SUBSET TileKeys}

Modes == {ModeRB, <<"r">>, <<"b">>, <<>>, <<"w">>, <<"w", "b">>}

Queries ==
    {[z |-> k.zoom_level, x |-> k.tile_column, y |-> k.tile_row] : k \in TileKeys}
    \cup {[z |-> k.zoom_level, x |-> k.tile_row, y |-> k.tile_column] : k \in TileKeys}

MbInit ==
    /\ pc = "mb_start"
    /\ store \in {Some(db) : db \in Stores}
    /\ mode \in Modes
    /\ conn = "none"
    /\ handle = None
    /\ err = "none"
    /\ query = None
    /\ data = None

\* open(file, mode): the mode is refused before anything is acquired
MbOpenRejected ==
    /\ pc = "mb_start"
    /\ ~ModeSupported(mode)
    /\ err' = "IOError"
    /\ pc' = "open_failed"
    /\ UNCHANGED <<store, mode, conn, handle, query, data, addrVars, decVars, ctVars>>

\* open(file, mode) with an accepted mode other than "rb": the connection is
\* made, metadata and bounds are not loaded
MbOpenUnloaded ==
    /\ pc = "mb_start"
    /\ ModeSupported(mode)
    /\ mode # ModeRB
    /\ conn' = "open"
    /\ handle' = Some([loaded |-> FALSE])
    /\ pc' = "opened"
    /\ UNCHANGED <<store, mode, err, query, data, addrVars, decVars, ctVars>>

\* open(file, "rb") whose _get_metadata raises: __init__ ends with the
\* exception, after sqlite3.connect
MbOpenMetadataFails ==
    /\ pc = "mb_start"
    /\ ModeSupported(mode)
    /\ mode = ModeRB
    /\ ~GetMetadata(store.v).ok
    /\ conn' = "open"
    /\ err' = GetMetadata(store.v).err
    /\ pc' = "open_failed"
    /\ UNCHANGED <<store, mode, handle, query, data, addrVars, decVars, ctVars>>

\* open(file, "rb") whose _get_bounds raises
MbOpenBoundsFails ==
    /\ pc = "mb_start"
    /\ ModeSupported(mode)
    /\ mode = ModeRB
    /\ GetMetadata(store.v).ok
    /\ ~GetBounds(store.v, GetMetadata(store.v).v).ok
    /\ conn' = "open"
    /\ err' = GetBounds(store.v, GetMetadata(store.v).v).err
    /\ pc' = "open_failed"
    /\ UNCHANGED <<store, mode, handle, query, data, addrVars, decVars, ctVars>>

\* open(file, "rb") that succeeds
MbOpenLoaded ==
    /\ pc = "mb_start"
    /\ ModeSupported(mode)
    /\ mode = ModeRB
    /\ GetMetadata(store.v).ok
    /\ GetBounds(store.v, GetMetadata(store.v).v).ok
    /\ conn' = "open"
    /\ handle' = Some([loaded |-> TRUE,
                       metadata |-> GetMetadata(store.v).v,
                       bounds |-> GetBounds(store.v, GetMetadata(store.v).v).v])
    /\ pc' = "opened"
    /\ UNCHANGED <<store, mode, err, query, data, addrVars, decVars, ctVars>>

\* __enter__: the with-block is entered
MbEnter ==
    /\ pc = "opened"
    /\ pc' = "in_with"
    /\ UNCHANGED <<mbVars, addrVars, decVars, ctVars>>

\* readtile(z, x, y) that finds a row
MbReadTile ==
    /\ pc \in {"opened", "in_with"}
    /\ conn = "open"
    /\ \E q \in Queries :
        /\ ReadTileRows(store.v, q.z, q.x, q.y) # {}
        /\ query' = Some(q)
        /\ data' = Some(store.v.rows[CHOOSE k \in ReadTileRows(store.v, q.z, q.x, q.y) : TRUE])
    /\ err' = "none"
    /\ UNCHANGED <<pc, store, mode, conn, handle, addrVars, decVars, ctVars>>

\* readtile(z, x, y) that finds no row, outside a with-block: the caller
\* gets the ValueError and still holds the handle
MbReadTileMissing ==
    /\ pc = "opened"
    /\ conn = "open"
    /\ \E q \in Queries :
        /\ ReadTileRows(store.v, q.z, q.x, q.y) = {}
        /\ query' = Some(q)
    /\ data' = None
    /\ err' = "ValueError"
    /\ UNCHANGED <<pc, store, mode, conn, handle, addrVars, decVars, ctVars>>

\* readtile(z, x, y) that finds no row, inside a with-block: the ValueError
\* leaves the block through __exit__, which closes the connection
MbReadTileMissingInWith ==
    /\ pc = "in_with"
    /\ conn = "open"
    /\ \E q \in Queries :
        /\ ReadTileRows(store.v, q.z, q.x, q.y) = {}
        /\ query' = Some(q)
    /\ data' = None
    /\ err' = "ValueError"
    /\ conn' = "closed"
    /\ pc' = "done"
    /\ UNCHANGED <<store, mode, handle, addrVars, decVars, ctVars>>

\* close()
MbClose ==
    /\ pc = "opened"
    /\ conn' = "closed"
    /\ pc' = "closed"
    /\ UNCHANGED <<store, mode, handle, err, query, data, addrVars, decVars, ctVars>>

\* __exit__ at the end of the with-block
MbExit ==
    /\ pc = "in_with"
    /\ conn' = "closed"
    /\ pc' = "done"
    /\ UNCHANGED <<store, mode, handle, err, query, data, addrVars, decVars, ctVars>>

MbNext ==
    \/ MbOpenRejected
    \/ MbOpenUnloaded
    \/ MbOpenMetadataFails
    \/ MbOpenBoundsFails
    \/ MbOpenLoaded
    \/ MbEnter
    \/ MbReadTile
    \/ MbReadTileMissing
    \/ MbReadTileMissingInWith
    \/ MbClose
    \/ MbExit

-----------------------------------------------------------------------------
(* Properties of the codec and the addressing.                             *)

Aligned(n) == n % 8 = 0

ByteRange == 0..255

\* side_length of the specification: min(8, 2^z)
SideLength(z) == IF z >= 3 THEN 8 ELSE 2 ^ z

\* C1: for container-aligned (x, y) below 2^20, decoding the encoded hashes
\* gives (x, y) back; the encoder always returns 5 values, each in 0..255.
CodecInverseLaw ==
    mt.ok =>
        /\ Len(mt.v.hashes) = 5
        /\ \A i \in 1..5 : mt.v.hashes[i] \in ByteRange
        /\ (/\ Aligned(tile.x) /\ Aligned(tile.y)
            /\ tile.x < TwoTo20 /\ tile.y < TwoTo20)
           => (mt.v.x = tile.x /\ mt.v.y = tile.y)

\* C1 witness: the documented container (696, 320) encodes to 0/0/33/180/128
\* and a container in the top nibble decodes back
CodecInverseWitness ==
    /\ mt.ok
    /\ tile.x = TwoTo20 - 8 /\ tile.y = 320
    /\ mt.v.hashes = <<240, 240, 241, 244, 128>>
    /\ mt.v.x = tile.x /\ mt.v.y = tile.y

\* the second half of C2: a tile of the same style and zoom outside
\* [origin, origin + side_length - 1] is not a member
OutsideIsRejected ==
    (/\ probe.style = tile.style /\ probe.z = tile.z
     /\ \/ probe.x < mt.v.x \/ probe.x > mt.v.x + SideLength(tile.z) - 1
        \/ probe.y < mt.v.y \/ probe.y > mt.v.y + SideLength(tile.z) - 1)
    => ~inside

\* C2 as stated: for every zoom and every non-negative x, y, from_tile(t)
\* contains t, and tiles outside the metatile's range are not members.
AddressingConsistency ==
    pc = "tested" =>
        /\ probe = tile => inside
        /\ OutsideIsRejected

\* the tiles the 5-byte hash of an 8-aligned origin can address: coordinates
\* below 2^20 whose offset in the 8-block is below side_length
Addressable(t) ==
    /\ t.x < TwoTo20 /\ t.y < TwoTo20
    /\ t.x % 8 < SideLength(t.z) /\ t.y % 8 < SideLength(t.z)

\* C2 amended: from_tile(t) contains t for every addressable tile (every
\* tile of the grid x, y < 2^z up to zoom 20 is one); tiles outside the
\* metatile's range are never members.
AddressingConsistencyAddressable ==
    pc = "tested" =>
        /\ (probe = tile /\ Addressable(tile)) => inside
        /\ OutsideIsRejected

\* C2 witness: at zoom 1 (side_length 2) the tile (1, 1) is in its metatile
\* and the tile (2, 1) of the same zoom is not
AddressingWitness ==
    /\ pc = "tested"
    /\ tile.z = 1 /\ tile.x = 1 /\ tile.y = 1
    /\ \/ probe = tile /\ inside
       \/ probe.x = 2 /\ probe.y = 1 /\ probe.style = tile.style
          /\ probe.z = 1 /\ ~inside

ValidHashes(h) ==
    /\ \A i \in 1..5 : h[i] \in ByteRange
    /\ Aligned(hashes_to_xy(h).x) /\ Aligned(hashes_to_xy(h).y)

\* C9 as stated: from_url(m.filepath(basedir)) succeeds and gives a metatile
\* equal to m with the same style, z and hashes, for every style and base
\* directory; from_url accepts only paths whose hash segments are bytes of a
\* container-aligned origin.
PathRoundTrip ==
    /\ pc = "parsed" =>
        /\ parsed.ok
        /\ MetatileEq(parsed.v, mt.v)
        /\ parsed.v.style = mt.v.style
        /\ parsed.v.z = mt.v.z
        /\ parsed.v.hashes = mt.v.hashes
    /\ pc = "rawparsed" => (parsed.ok => ValidHashes(parsed.v.hashes))

-----------------------------------------------------------------------------
(* Properties of the decomposition.                                        *)

\* C3 as stated: no container is emitted twice, whatever the bound, and the
\* documented bound over two containers on each axis yields exactly four.
DecompositionUnique ==
    /\ \A i, j \in 1..Len(emitted) :
        i < j => ~(/\ emitted[i].style = emitted[j].style
                   /\ emitted[i].z = emitted[j].z
                   /\ emitted[i].x = emitted[j].x
                   /\ emitted[i].y = emitted[j].y)
    /\ (pc = "done" /\ bound.v.bound = DocBound) => Len(emitted) = 4

PointInMetatile(p, m) ==
    /\ m.x <= p.x /\ p.x <= m.max_x
    /\ m.y <= p.y /\ p.y <= m.max_y

MetatileMeetsBound(m, b) ==
    /\ m.x <= b.max_x /\ b.min_x <= m.max_x
    /\ m.y <= b.max_y /\ b.min_y <= m.max_y

Covered(b) ==
    \A x \in b.min_x..b.max_x, y \in b.min_y..b.max_y :
        \E i \in 1..Len(emitted) : PointInMetatile(Point(x, y), emitted[i])

-----------------------------------------------------------------------------
(* Properties of the container.                                            *)

-----------------------------------------------------------------------------
(* Properties of the mbtiles store.                                        *)

\* C6 as stated: readtile(z, x, y) returns the tile_data of the row with
\* zoom_level = z, tile_column = x, tile_row = y, and raises ValueError
\* exactly when there is no such row.
PointLookup ==
    query.ok =>
        LET k == TileKey(query.v.z, query.v.x, query.v.y) IN
        IF k \in DOMAIN store.v.rows
        THEN err = "none" /\ data = Some(store.v.rows[k])
        ELSE err = "ValueError" /\ ~data.ok

\* C7 as stated: every mode other than "rb" is refused with IOError and
\* yields no handle, so every handle has its metadata and bounds loaded.
UnsupportedModeRefused ==
    /\ (pc # "mb_start" /\ mode # ModeRB) => (err = "IOError" /\ ~handle.ok)
    /\ handle.ok => handle.v.loaded

\* C8 as stated: when the use of a store has ended (close(), the end of a
\* with-block, an exception leaving a with-block, a failed construction) no
\* connection is left open.
ScopedRelease ==
    pc \in {"closed", "done", "open_failed"} => conn # "open"

\* the zoom levels of the metadata, when both are integers
IntegerZooms(db) ==
    /\ LastValue(KeyMinzoom, db.meta).ok /\ LastValue(KeyMaxzoom, db.meta).ok
    /\ IsIntString(LastValue(KeyMinzoom, db.meta).v)
    /\ IsIntString(LastValue(KeyMaxzoom, db.meta).v)

MinZoomOf(db) == ParseInt(LastValue(KeyMinzoom, db.meta).v)

MaxZoomOf(db) == ParseInt(LastValue(KeyMaxzoom, db.meta).v)

CompleteMetadata(db) ==
    /\ IntegerZooms(db)
    /\ \A key \in {KeyCenter, KeyFormat, KeyBounds} :
        \E i \in 1..Len(db.meta) : db.meta[i].name = key

RowsAt(db, z) == {k \in DOMAIN db.rows : k.zoom_level = z}

\* bounds hold one Bound per zoom of [minzoom, maxzoom], ascending, flagged
\* flip_y, with the extrema of the rows stored at that zoom
BoundsDerived(db, bounds) ==
    /\ Len(bounds) = MaxZoomOf(db) - MinZoomOf(db) + 1
    /\ \A i \in 1..Len(bounds) :
        LET z == MinZoomOf(db) + i - 1
            b == bounds[i]
        IN /\ b.z = z
           /\ b.flip_y = TRUE
           /\ RowsAt(db, z) # {}
           /\ \A k \in RowsAt(db, z) :
                /\ b.min_x <= k.tile_column /\ k.tile_column <= b.max_x
                /\ b.min_y <= k.tile_row /\ k.tile_row <= b.max_y
           /\ \E k \in RowsAt(db, z) : k.tile_column = b.min_x
           /\ \E k \in RowsAt(db, z) : k.tile_column = b.max_x
           /\ \E k \in RowsAt(db, z) : k.tile_row = b.min_y
           /\ \E k \in RowsAt(db, z) : k.tile_row = b.max_y

EveryZoomHasRows(db) ==
    \A z \in MinZoomOf(db)..MaxZoomOf(db) : RowsAt(db, z) # {}

-----------------------------------------------------------------------------
(* Values of the variables an operation group leaves alone.                *)

DecIdle == bound = None /\ cursor = 0 /\ buf = <<>> /\ emitted = <<>>

CtIdle ==
    /\ tilemap = <<>> /\ origin = None /\ file = None
    /\ readback = <<>> /\ file2 = None

MbIdle ==
    /\ store = None /\ mode = <<>> /\ conn = "none" /\ handle = None
    /\ err = "none" /\ query = None /\ data = None

-----------------------------------------------------------------------------
(* Specifications.                                                         *)

AddrInitAll == AddrInit /\ DecIdle /\ CtIdle /\ MbIdle

\* the codec and the addressing of metatiles
SpecAddr == AddrInitAll /\ [][AddrNext]_vars

DecInitAll == DecInit /\ AddrIdle /\ CtIdle /\ MbIdle

\* bound_to_metatiles, consumed until it is exhausted
SpecDec == DecInitAll /\ [][DecNext]_vars

CtInitAll == CtInit /\ AddrIdle /\ DecIdle /\ MbIdle

\* a container written, read back and written again
SpecCt == CtInitAll /\ [][CtNext]_vars

MbInitAll == MbInit /\ AddrIdle /\ DecIdle /\ CtIdle

\* an mbtiles store opened, read and closed
SpecMb == MbInitAll /\ [][MbNext]_vars

====
